---- MODULE Spec2Model ----
(***************************************************************************)
(* Booking and payment reconciliation of the karate class application:     *)
(* apps/classes/models.py (Booking), apps/classes/payments.py (the M-Pesa  *)
(* client and process_class_payment) and apps/classes/views.py (booking    *)
(* creation, the poll endpoint, the M-Pesa callback, user cancellation).   *)
(*                                                                         *)
(* A database row is a record; Booking.save() writes every field of the    *)
(* in-memory object, so a handler that read the row earlier overwrites     *)
(* whatever was committed in between.  Each handler is cut at the points   *)
(* where it reads or writes the database, so handlers interleave as the    *)
(* request threads of the web server and the callback's worker thread do.  *)
(* Time is counted in minutes.                                             *)
(***************************************************************************)
EXTENDS Integers, Sequences, FiniteSets, TLC

\* ------------------------------------------------------------------ bounds
\* The clock runs from 0 to MaxTime minutes in steps of TickMinutes.
MaxTime == 10
TickMinutes == 5
\* The callbacks the provider delivers for one booking.
MaxDeliveries == 2

\* ------------------------------------------------------- program constants
PaymentWindow == 5
RateWindow == 5
RateLimit == 3
max_retries == 3
NoTime == -1
NoTxn == 0
\* The class's max_students and free_trial_spots fields.
max_students == 1
free_trial_spots == 1

Users == {1, 2}
\* The logged-in sessions making requests: one for each user, and a second
\* one of user 1.
Sessions == Users \cup {3}
UserOf(s) == IF s \in Users THEN s ELSE 1
\* The primary keys of the bookings created.
BookingIds == {1}
MaxBookings == Cardinality(BookingIds)
BookingTypes == {"Free Trial", "Monthly"}
\* Amounts are decimals of two places, held in hundredths: the prices a
\* class is booked at, and the amounts stk_push is called with.
Prices == {0, 150000}
Amounts == {-100, 0, 50, 100, 150000, 150050}
\* ResultCode values of the gateway: 0 success, 1 insufficient balance,
\* 1032 cancelled by the user, 2001 wrong PIN.
ResultCodes == {0, 1, 1032, 2001}
\* The result codes the callback is delivered with.
CallbackCodes == {0, 1032}

VARIABLES
  now,           \* the clock, in minutes
  rows,          \* the Booking table: rows[b] is the booking with id b
  uncommitted,   \* the ids of rows an open transaction has inserted
  paymentLogs,   \* the PaymentLog entries of each booking, oldest first
  waitingList,   \* the users on the class's waiting list
  post,          \* BookingCreateView.post: each user's request in progress
  cb,            \* the worker thread of mpesa_callback
  poll,          \* check_payment_status: the request in progress
  cancel,        \* cancel_booking_view: the request in progress
  call,          \* a call of the gateway client on its own, and its result
  postResponse,  \* the answer to the last booking request turned away
  pollResponse,  \* the answer of the last check_payment_status request
  queryResult,   \* what query_transaction returned to that request
  pending,       \* payment_pending_view: the request in progress
  cbResponse,    \* the HTTP status mpesa_callback gave the last delivery
  paymentEmails, \* the payment confirmations mailed for each booking
  gwIssued,      \* the request ids the gateway has issued
  gwReported     \* the request ids the gateway has reported as paid

vars == <<call, now, rows, uncommitted, paymentLogs, waitingList, post, cb, poll,
          cancel, pending, cbResponse, paymentEmails, postResponse,
          pollResponse,
          queryResult, gwIssued, gwReported>>

\* ------------------------------------------------------------ phone numbers
\* A phone number is the sequence of its characters.
Digits == {"0", "1", "2", "3", "4", "5", "6", "7", "8", "9"}
IsDigit(c) == c \in Digits
P254 == <<"2", "5", "4", "7", "1", "2", "3", "4", "5", "6", "7", "8">>
PLocal == <<"0", "7", "1", "2", "3", "4", "5", "6", "7", "8">>
PNine == <<"7", "1", "2", "3", "4", "5", "6", "7", "8">>
PPlus == <<"+">> \o P254
PBad == <<"1", "2", "3">>
Phones == {P254, PLocal, PNine, PPlus, PBad}
NoPhone == <<>>

StartsWith(s, p) == Len(s) >= Len(p) /\ SubSeq(s, 1, Len(p)) = p

\* BookingForm.clean_phone_number: the digits, or NoPhone when the form
\* rejects the number.
clean_phone_number(phone) ==
  LET d == SelectSeq(phone, IsDigit)
  IN IF ~StartsWith(d, <<"2", "5", "4">>) \/ Len(d) # 12 THEN NoPhone ELSE d

\* MPesaPayment.validate_phone_number: the normalized number, or NoPhone.
validate_phone_number(phone) ==
  LET d == SelectSeq(phone, IsDigit)
  IN IF Len(d) = 12 /\ StartsWith(d, <<"2", "5", "4">>) THEN d
     ELSE IF Len(d) = 10 /\ StartsWith(d, <<"0">>)
          THEN <<"2", "5", "4">> \o Tail(d)
     ELSE IF Len(d) = 9 THEN <<"2", "5", "4">> \o d
     ELSE NoPhone

\* ----------------------------------------------------------------- Booking
\* A new Booking as BookingCreateView.post saves it.
NewBooking(u, type, t) ==
  [user |-> u, booking_type |-> type, status |-> "Pending",
   payment_status |-> "Unpaid", transaction_id |-> NoTxn, booked_at |-> t,
   phone_number |-> NoPhone, confirmed_at |-> NoTime,
   cancelled_at |-> NoTime, expires_at |-> NoTime, notes |-> <<>>,
   payment_email_sent |-> FALSE]

NoBooking == NewBooking(0, "", NoTime)

\* handle_booking_confirmation, the post_save receiver of Booking, on a
\* booking that is not new: the object as it leaves a save().  The receiver
\* mails the payment confirmation of a Paid booking whose payment_email_sent
\* is not set, and sets it.
handle_booking_confirmation(bk) ==
  IF bk.payment_status = "Paid" /\ ~bk.payment_email_sent
  THEN [bk EXCEPT !.payment_email_sent = TRUE] ELSE bk

\* send_payment_confirmation_email_sync on the row it reads.
send_payment_confirmation_email_sync(bk) ==
  IF bk.payment_email_sent THEN bk
  ELSE [bk EXCEPT !.payment_email_sent = TRUE]

\* The payment confirmations mailed between reading a booking and saving
\* it: payment_email_sent is set exactly when one is mailed.
EmailsSent(before, after) ==
  IF after.payment_email_sent /\ ~before.payment_email_sent THEN 1 ELSE 0

confirm_payment(bk, txn, t) ==
  handle_booking_confirmation(
    [bk EXCEPT !.payment_status = "Paid", !.status = "Confirmed",
               !.transaction_id = txn, !.confirmed_at = t,
               !.expires_at = NoTime])

\* reason is appended to notes as a line of its own.
cancel_booking(bk, reason, t) ==
  handle_booking_confirmation(
    [bk EXCEPT !.status = "Cancelled", !.cancelled_at = t,
               !.notes = Append(@, <<"Cancellation reason", reason>>)])

\* mark_expired leaving payment_status as it is.
mark_expired_StatusOnly(bk) ==
  [bk EXCEPT !.status = "Expired",
             !.notes = Append(@, <<"Expired due to payment timeout", "">>)]

mark_expired(bk) ==
  [bk EXCEPT !.status = "Expired", !.payment_status = "Failed",
             !.notes = Append(@, <<"Expired due to payment timeout", "">>)]

is_payment_expired(bk, t) ==
  bk.expires_at # NoTime /\ t > bk.expires_at

Log(action, code) == [action |-> action, status_code |-> code]

\* str(result_code)
Str(code) ==
  CASE code = 0 -> "0"
    [] code = 1 -> "1"
    [] code = 1032 -> "1032"
    [] OTHER -> "2001"

\* save() of the object of booking b, read as before and left as after.
Save(b, before, after) ==
  /\ rows' = [rows EXCEPT ![b] = after]
  /\ paymentEmails' =
       [paymentEmails EXCEPT ![b] = @ + EmailsSent(before, after)]

\* Rows other transactions can read.
Committed == {b \in 1..Len(rows) : b \notin uncommitted}

\* ------------------------------------------------------------ MPesaPayment
\* What one HTTP request to the provider can end in.
TokenOutcomes == {"ok", "timeout", "neterror", "http401"}
\* A 200 answer that is not JSON makes response.json() raise a ValueError
\* ("badjson") or, with requests 2.27 and later, a RequestException
\* ("badjson_rx").
PushOutcomes ==
  {"ok0", "rejected", "badjson", "badjson_rx", "timeout", "neterror",
   "http500"}
QueryOutcomes == {"ok", "nocode", "badjson", "timeout", "neterror", "http429"}
TokenRuns == [1..max_retries -> TokenOutcomes]
PushRuns == [1..max_retries -> PushOutcomes]

\* The retry loop of get_access_token from attempt i on.
RECURSIVE TokenLoop(_, _)
TokenLoop(outs, i) ==
  IF i > max_retries THEN [token |-> FALSE, requests |-> max_retries]
  ELSE IF outs[i] = "ok" THEN [token |-> TRUE, requests |-> i]
  ELSE IF i = max_retries THEN [token |-> FALSE, requests |-> i]
  ELSE TokenLoop(outs, i + 1)

\* get_access_token: whether a token is returned, and the requests made.
get_access_token(cached, outs) ==
  IF cached THEN [token |-> TRUE, requests |-> 0] ELSE TokenLoop(outs, 1)

\* Every result get_access_token can return.
TokenResults == {get_access_token(c, t) : c \in BOOLEAN, t \in TokenRuns}

PushRun(ok, code, pushes) ==
  [success |-> ok, error_code |-> code, push_requests |-> pushes]

\* The retry loop of stk_push from attempt i on.
RECURSIVE PushLoop(_, _)
PushLoop(outs, i) ==
  IF i > max_retries THEN PushRun(FALSE, "NONE", max_retries)
  ELSE IF outs[i] = "ok0" THEN PushRun(TRUE, "", i)
  ELSE IF outs[i] = "rejected" THEN PushRun(FALSE, "1", i)
  ELSE IF outs[i] = "badjson" THEN PushRun(FALSE, "SYSTEM_ERROR", i)
  ELSE IF i < max_retries THEN PushLoop(outs, i + 1)
  ELSE IF outs[i] = "timeout" THEN PushRun(FALSE, "TIMEOUT", i)
  ELSE IF outs[i] \in {"neterror", "badjson_rx"}
  THEN PushRun(FALSE, "NETWORK_ERROR", i)
  ELSE PushRun(FALSE, "HTTP_500", i)

\* Every way the retry loop can end.
PushLoopResults == {PushLoop(p, 1) : p \in PushRuns}

PushResult(ok, code, tokenReqs, pushes, rid) ==
  [success |-> ok, error_code |-> code, token_requests |-> tokenReqs,
   push_requests |-> pushes, checkout_request_id |-> rid]

\* int(float(amount)): the amount's whole units, truncated towards zero.
int_float(amount) ==
  IF amount >= 0 THEN amount \div 100 ELSE -((-amount) \div 100)

\* stk_push: validation, then the token, then the push with its retries.
\* tok is what get_access_token returns and run how the retry loop ends when
\* they are reached; rid is the id the gateway assigns to an accepted push.
stk_push(phone, amount, tok, run, rid) ==
  IF validate_phone_number(phone) = NoPhone
  THEN PushResult(FALSE, "INVALID_PHONE", 0, 0, NoTxn)
  ELSE IF int_float(amount) < 1
  THEN PushResult(FALSE, "INVALID_AMOUNT", 0, 0, NoTxn)
  ELSE IF ~tok.token
  THEN PushResult(FALSE, "AUTH_FAILED", tok.requests, 0, NoTxn)
  ELSE PushResult(run.success, run.error_code, tok.requests,
                  run.push_requests, IF run.success THEN rid ELSE NoTxn)

QueryNone == [ok |-> FALSE, has_code |-> FALSE, code |-> 0]
\* The request made no query.
NotQueried == [ok |-> FALSE, has_code |-> TRUE, code |-> 0]

\* query_transaction: None on a missing cached context, a missing token or any
\* failure of the request; otherwise the provider's answer.
query_transaction(ctxCached, token, http, code) ==
  IF ~ctxCached THEN QueryNone
  ELSE IF ~token THEN QueryNone
  ELSE IF http = "ok" THEN [ok |-> TRUE, has_code |-> TRUE, code |-> code]
  ELSE IF http = "nocode" THEN [ok |-> TRUE, has_code |-> FALSE, code |-> 0]
  ELSE QueryNone

\* Every result stk_push can return for one call.
StkPushResults(phone, amount, rid) ==
  {stk_push(phone, amount, tok, run, rid) :
     tok \in TokenResults, run \in PushLoopResults}

\* Every result query_transaction can return for one call.
QueryResults ==
  {query_transaction(c, tok.token, h, code) :
     c \in BOOLEAN, tok \in TokenResults, h \in QueryOutcomes,
     code \in ResultCodes}

\* ------------------------------------------- the gateway client on its own
NoCallYet == [fn |-> "none"]

Others ==
  <<now, rows, uncommitted, paymentLogs, waitingList, post, cb, poll, cancel,
    pending, cbResponse, paymentEmails, postResponse, pollResponse,
    queryResult, gwIssued, gwReported>>

\* A call of get_access_token with the answers its requests get.
GetAccessTokenCall ==
  /\ call.fn = "none"
  /\ \E cached \in BOOLEAN, outs \in TokenRuns :
       call' = [fn |-> "get_access_token", cached |-> cached, outs |-> outs,
                result |-> get_access_token(cached, outs)]
  /\ UNCHANGED Others

\* A call of stk_push with what get_access_token returns to it and the
\* answers its push requests get.
StkPushCall ==
  /\ call.fn = "none"
  /\ \E phone \in Phones, amount \in Amounts, tok \in TokenResults,
        outs \in PushRuns :
       call' = [fn |-> "stk_push", phone |-> phone, amount |-> amount,
                outs |-> outs,
                result |-> stk_push(phone, amount, tok, PushLoop(outs, 1), 1)]
  /\ UNCHANGED Others

CallReturn ==
  /\ call.fn # "none"
  /\ call' = NoCallYet
  /\ UNCHANGED Others

\* --------------------------------------------------- process_class_payment
\* What process_class_payment leaves and returns; res is the result of
\* the stk_push call it made, NoCall when it made none.
NoCall == PushResult(FALSE, "", 0, 0, NoTxn)

Paid(bk, logs, ok, code, free, res) ==
  [bk |-> bk, logs |-> logs, success |-> ok, error_code |-> code,
   is_free_trial |-> free, token_requests |-> res.token_requests,
   push_requests |-> res.push_requests]

\* The booking update of a failed initiation.
InitiationFailed(bk, code, t) ==
  [bk EXCEPT !.payment_status = "Failed", !.status = "Cancelled",
             !.notes = << <<"Payment failed", code>> >>,
             !.cancelled_at = t]

\* The booking update of a successful initiation.
InitiationSent(bk, rid, t) ==
  [bk EXCEPT !.transaction_id = rid, !.payment_status = "Pending",
             !.status = "Pending", !.expires_at = t + PaymentWindow]

\* The free trial's confirmation.
FreeTrialConfirmed(bk, t) ==
  handle_booking_confirmation(
    [bk EXCEPT !.payment_status = "Paid", !.status = "Confirmed",
               !.confirmed_at = t])

\* process_class_payment(booking, phone_number); res is what stk_push
\* returns when it is called.
\* process_class_payment from the amount check on: the branch of a booking
\* that is to be paid for.
PayByPush(bk, logs, price, res, t) ==
  IF price <= 0
  THEN Paid(bk, logs, FALSE, "INVALID_AMOUNT", FALSE, NoCall)
  ELSE LET logs1 == Append(logs, Log("payment_initiated", "INITIATED"))
       IN IF res.success
          THEN Paid(InitiationSent(bk, res.checkout_request_id, t),
                    Append(logs1, Log("stk_push_sent", "SUCCESS")),
                    TRUE, "", FALSE, res)
          ELSE Paid(InitiationFailed(bk, res.error_code, t),
                    Append(logs1, Log("stk_push_failed", res.error_code)),
                    FALSE, res.error_code, FALSE, res)

\* process_class_payment without the free trial's branch.
process_class_payment_NoBypass(bk, logs, price, res, t) ==
  PayByPush(bk, logs, price, res, t)

process_class_payment(bk, logs, price, res, t) ==
  IF bk.booking_type = "Free Trial"
  THEN Paid(FreeTrialConfirmed(bk, t),
            Append(logs, Log("free_trial_confirmed", "FREE_TRIAL")),
            TRUE, "", TRUE, NoCall)
  ELSE PayByPush(bk, logs, price, res, t)

\* ------------------------------------------------------- BookingCreateView
Active(b) == rows[b].status \in {"Confirmed", "Pending"}

\* KarateClass.spots_available, free_trials_available, is_full
spots_available ==
  LET n == Cardinality({b \in Committed : Active(b)})
  IN IF max_students - n > 0 THEN max_students - n ELSE 0

free_trials_available ==
  LET n == Cardinality({b \in Committed :
                          Active(b) /\ rows[b].booking_type = "Free Trial"})
  IN IF free_trial_spots - n > 0 THEN free_trial_spots - n ELSE 0

is_full == spots_available = 0

\* recent_bookings counting the user's bookings of all times.
recent_bookings_NoWindow(u) ==
  Cardinality({b \in Committed : rows[b].user = u})

recent_bookings(u) ==
  Cardinality({b \in Committed :
                 rows[b].user = u /\ rows[b].booked_at >= now - RateWindow})

\* Admission without the check for an existing active booking.
Admission_NoDuplicateCheck(u, type, phone) ==
  IF clean_phone_number(phone) = NoPhone THEN "invalid"
  ELSE IF recent_bookings(u) >= RateLimit THEN "rate_limited"
  ELSE IF type = "Free Trial" /\ free_trials_available <= 0 THEN "no_trial"
  ELSE IF is_full THEN "waitlisted"
  ELSE "create"

\* What the checks before the transaction decide for a request.
Admission(u, type, phone) ==
  IF clean_phone_number(phone) = NoPhone THEN "invalid"
  ELSE IF recent_bookings(u) >= RateLimit THEN "rate_limited"
  ELSE IF \E b \in Committed : rows[b].user = u /\ Active(b) THEN "duplicate"
  ELSE IF type = "Free Trial" /\ free_trials_available <= 0 THEN "no_trial"
  ELSE IF is_full THEN "waitlisted"
  ELSE "create"

PostIdle ==
  [pc |-> "idle", type |-> "", phone |-> NoPhone, b |-> 0,
   token_requests |-> 0, push_requests |-> 0]

\* Rows are left for one more booking.
RoomForBooking ==
  Len(rows) + Cardinality({v \in Sessions : post[v].pc = "checked"})
    < MaxBookings

\* Rows are left for one more booking of at most n.
RoomFor(n) ==
  Len(rows) + Cardinality({v \in Sessions : post[v].pc = "checked"}) < n

\* post, up to the transaction: the form and the admission checks.
PostAdmit(u, type, phone) ==
  /\ post[u].pc = "idle"
  /\ LET a == Admission(UserOf(u), type, phone)
     IN /\ waitingList' = IF a = "waitlisted"
                          THEN waitingList \cup {UserOf(u)}
                          ELSE waitingList
        /\ post' = IF a = "create"
                   THEN [post EXCEPT ![u] =
                           [PostIdle EXCEPT
                              !.pc = "checked", !.type = type,
                              !.phone = clean_phone_number(phone)]]
                   ELSE post
        /\ postResponse' = IF a = "create" THEN "none" ELSE a
  /\ UNCHANGED <<call, paymentEmails, cbResponse, pending, now, rows,
                 uncommitted, paymentLogs, cb, poll, cancel, pollResponse,
                 queryResult, gwIssued, gwReported>>

\* post while rows are left for the booking it may create.
PostCheck(u, type, phone) ==
  /\ RoomForBooking
  /\ PostAdmit(u, type, phone)

\* post at any time: a request the checks turn away needs no row.
PostRequest(u, type, phone) ==
  /\ Admission(u, type, phone) = "create" => RoomForBooking
  /\ PostAdmit(u, type, phone)

\* post by any session, while rows are left for the n bookings created.
PostAny(s, type, phone, n) ==
  /\ Admission(UserOf(s), type, phone) = "create" => RoomFor(n)
  /\ PostAdmit(s, type, phone)

\* ViewFailBooking with the update left out: the view relies on
\* process_class_payment to have cancelled the booking.
ViewFailBooking_Skipped(bk, code, t) == bk

\* The update the view makes when process_class_payment reports a failure.
ViewFailBooking(bk, code, t) ==
  [bk EXCEPT !.status = "Cancelled", !.payment_status = "Failed",
             !.cancelled_at = t,
             !.notes = << <<"Payment initiation failed", code>> >>]

\* post, inside the transaction: the booking is saved, logged and paid for.
\* The gateway knows the request id from the moment it accepts the push; a
\* push that timed out may have been accepted all the same.
PostPay(u) ==
  /\ post[u].pc = "checked"
  /\ LET b == Len(rows) + 1
         bk0 == [NewBooking(UserOf(u), post[u].type, now) EXCEPT
                   !.phone_number = post[u].phone]
         logs0 == <<Log("booking_created", "CREATED")>>
     IN \E price \in Prices, accepted \in BOOLEAN :
        \E res \in StkPushResults(post[u].phone, price, b) :
          LET r == process_class_payment(bk0, logs0, price, res, now)
              called == r.push_requests > 0
              bk1 == IF r.success THEN r.bk
                     ELSE ViewFailBooking(r.bk, r.error_code, now)
          IN /\ accepted => called /\ res.error_code = "TIMEOUT"
             /\ rows' = Append(rows, bk1)
             /\ paymentLogs' = Append(paymentLogs, r.logs)
             /\ paymentEmails' = Append(paymentEmails, EmailsSent(bk0, bk1))
             /\ uncommitted' = uncommitted \cup {b}
             /\ gwIssued' = IF called /\ (res.success \/ accepted)
                            THEN gwIssued \cup {b} ELSE gwIssued
             /\ post' = [post EXCEPT
                          ![u].pc = "paid", ![u].b = b,
                          ![u].token_requests = r.token_requests,
                          ![u].push_requests = r.push_requests]
  /\ UNCHANGED <<call, postResponse, cbResponse, pending, now, waitingList,
                 cb, poll, cancel, pollResponse, queryResult, gwReported>>

\* post: the transaction commits and the booking becomes visible.
PostCommit(u) ==
  /\ post[u].pc = "paid"
  /\ uncommitted' = uncommitted \ {post[u].b}
  /\ post' = [post EXCEPT ![u] = PostIdle]
  /\ UNCHANGED <<call, postResponse, paymentEmails, cbResponse, pending, now,
                 rows, paymentLogs, waitingList, cb, poll, cancel,
                 pollResponse, queryResult, gwIssued, gwReported>>


\* ---------------------------------------------------------- mpesa_callback
NoResponse == 0

CbIdle == [pc |-> "idle", b |-> 0, code |-> 0, local |-> NoBooking]

\* Booking.objects.get(transaction_id=...): the committed rows it matches.
ByTransactionId(rid) ==
  {b \in Committed : rows[b].transaction_id = rid}

\* The deliveries logged for a booking.
Deliveries(b) ==
  Len(SelectSeq(paymentLogs[b], LAMBDA e : e.action = "callback_received"))

\* CallbackSucceeded testing only that a result code is present.
CallbackSucceeded_AnyCode(code) == code >= 0

\* The callback's test of the result code.
CallbackSucceeded(code) == code = 0

\* The booking update of a failure callback.
CallbackFailed(bk, code, t) ==
  [bk EXCEPT !.payment_status = "Failed", !.status = "Cancelled",
             !.notes = Append(@, <<"Payment failed", Str(code)>>),
             !.cancelled_at = t]

\* The deliveries process_callback does nothing with.  A body that is no
\* JSON is refused; one that is JSON is acknowledged and handed to the worker
\* thread, where a body that is no object raises, and is logged, and one
\* without a CheckoutRequestID is dropped.
Malformed == {"invalid_json", "not_object", "no_request_id"}

CallbackStatus(payload) == IF payload = "invalid_json" THEN 400 ELSE 200

CallbackMalformed(payload) ==
  /\ cb.pc = "idle"
  /\ cbResponse' = CallbackStatus(payload)
  /\ UNCHANGED <<call, postResponse, paymentEmails, pending, now, rows,
                 uncommitted, paymentLogs, waitingList, post, cb, poll,
                 cancel, pollResponse, queryResult, gwIssued, gwReported>>

\* process_callback, first part: the provider delivers a result for a request
\* id it issued; the worker thread looks the booking up and logs the
\* delivery.  A delivery that matches no booking is dropped.
CallbackReceive(rid, code) ==
  /\ cb.pc = "idle"
  /\ rid \in gwIssued
  /\ cbResponse' = 200
  /\ \A b \in ByTransactionId(rid) : Deliveries(b) < MaxDeliveries
  /\ gwReported' = IF code = 0 THEN gwReported \cup {rid} ELSE gwReported
  /\ IF ByTransactionId(rid) = {}
     THEN UNCHANGED <<cb, paymentLogs>>
     ELSE LET b == CHOOSE x \in ByTransactionId(rid) : TRUE
          IN /\ cb' = [pc |-> "loaded", b |-> b, code |-> code,
                       local |-> rows[b]]
             /\ paymentLogs' =
                  [paymentLogs EXCEPT ![b] =
                     Append(@, Log("callback_received", Str(code)))]
  /\ UNCHANGED <<call, postResponse, paymentEmails, pending, now, rows,
                 uncommitted, waitingList, post, poll, cancel, pollResponse,
                 queryResult, gwIssued>>

\* process_callback, second part: the object read earlier is changed and
\* saved, and the outcome logged, in one transaction.
CallbackProcess ==
  /\ cb.pc = "loaded"
  /\ LET b == cb.b
     IN IF CallbackSucceeded(cb.code)
        THEN /\ Save(b, cb.local,
                     send_payment_confirmation_email_sync(
                       confirm_payment(cb.local, cb.local.transaction_id,
                                       now)))
             /\ paymentLogs' = [paymentLogs EXCEPT ![b] =
                                  Append(@, Log("payment_confirmed", "0"))]
        ELSE /\ Save(b, cb.local, CallbackFailed(cb.local, cb.code, now))
             /\ paymentLogs' =
                  [paymentLogs EXCEPT ![b] =
                     Append(@, Log("payment_failed", Str(cb.code)))]
  /\ cb' = CbIdle
  /\ UNCHANGED <<call, postResponse, cbResponse, pending, now, uncommitted,
                 waitingList, post, poll, cancel, pollResponse, queryResult,
                 gwIssued, gwReported>>

\* ---------------------------------------------------- payment_pending_view
PendingIdle == [pc |-> "idle", b |-> 0, local |-> NoBooking]

\* payment_pending_view, first part: the owner's page request reads the
\* booking; a booking whose window has passed with the payment still Pending
\* is to be expired, any other is shown or redirected from.
PendingRequest(u, b) ==
  /\ pending.pc = "idle"
  /\ b \in Committed
  /\ rows[b].user = u
  /\ ~(rows[b].payment_status = "Paid" /\ rows[b].status = "Confirmed")
  /\ is_payment_expired(rows[b], now)
  /\ rows[b].payment_status = "Pending"
  /\ pending' = [pc |-> "expire", b |-> b, local |-> rows[b]]
  /\ UNCHANGED <<call, postResponse, paymentEmails, cbResponse, now, rows,
                 uncommitted, paymentLogs, waitingList, post, cb, poll,
                 cancel, pollResponse, queryResult, gwIssued, gwReported>>

\* payment_pending_view, second part: mark_expired saves the object read
\* earlier.
PendingExpire ==
  /\ pending.pc = "expire"
  /\ Save(pending.b, pending.local, mark_expired(pending.local))
  /\ pending' = PendingIdle
  /\ UNCHANGED <<call, postResponse, cbResponse, now, uncommitted,
                 paymentLogs, waitingList, post, cb, poll, cancel,
                 pollResponse, queryResult, gwIssued, gwReported>>

\* ---------------------------------------------------- check_payment_status
PollIdle == [pc |-> "idle", b |-> 0, local |-> NoBooking]

\* PollDecision with steps 2 and 4 looking at payment_status alone.
PollDecision_PaymentOnly(bk, t) ==
  IF bk.status = "Confirmed" /\ bk.payment_status = "Paid" THEN "confirmed"
  ELSE IF bk.payment_status = "Failed" THEN "failed"
  ELSE IF is_payment_expired(bk, t)
       THEN IF bk.status = "Pending" THEN "expire" ELSE "expired"
  ELSE IF bk.payment_status = "Pending" /\ bk.transaction_id # NoTxn
       THEN "query"
  ELSE "pending"

\* PollDecision asking the gateway before it looks at the deadline.
PollDecision_QueryFirst(bk, t) ==
  IF bk.status = "Confirmed" /\ bk.payment_status = "Paid" THEN "confirmed"
  ELSE IF bk.payment_status = "Failed"
          \/ bk.status \in {"Cancelled", "Expired"} THEN "failed"
  ELSE IF bk.payment_status = "Pending" /\ bk.status = "Pending"
          /\ bk.transaction_id # NoTxn THEN "query"
  ELSE IF is_payment_expired(bk, t)
       THEN IF bk.status = "Pending" THEN "expire" ELSE "expired"
  ELSE "pending"

\* Steps 1 to 4 of check_payment_status on the booking as read.
PollDecision(bk, t) ==
  IF bk.status = "Confirmed" /\ bk.payment_status = "Paid" THEN "confirmed"
  ELSE IF bk.payment_status = "Failed"
          \/ bk.status \in {"Cancelled", "Expired"} THEN "failed"
  ELSE IF is_payment_expired(bk, t)
       THEN IF bk.status = "Pending" THEN "expire" ELSE "expired"
  ELSE IF bk.payment_status = "Pending" /\ bk.status = "Pending"
          /\ bk.transaction_id # NoTxn THEN "query"
  ELSE "pending"

\* PollOutcome taking result code 1032 for a failure.
PollOutcome_CancelledFails(result) ==
  IF result.ok /\ result.has_code
  THEN IF result.code = 0 THEN "confirm"
       ELSE IF result.code # 1 THEN "fail"
       ELSE "pending"
  ELSE "pending"

\* PollOutcome reading a missing answer as a failure.
PollOutcome_NoneFails(result) ==
  IF result.ok /\ result.has_code
  THEN IF result.code = 0 THEN "confirm"
       ELSE IF result.code \notin {1032, 1} THEN "fail"
       ELSE "pending"
  ELSE "fail"

\* What check_payment_status does with the value query_transaction returned.
PollOutcome(result) ==
  IF result.ok /\ result.has_code
  THEN IF result.code = 0 THEN "confirm"
       ELSE IF result.code \notin {1032, 1} THEN "fail"
       ELSE "pending"
  ELSE "pending"

\* The booking update of a failure the query reports.
QueryFailed(bk, t) ==
  [bk EXCEPT !.payment_status = "Failed", !.status = "Cancelled",
             !.cancelled_at = t]

\* check_payment_status, first part: the owner's poll reads the booking and
\* answers from it, or goes on to expire it or to query the gateway.
PollRequest(u, b) ==
  /\ poll.pc = "idle"
  /\ b \in Committed
  /\ rows[b].user = u
  /\ LET d == PollDecision(rows[b], now)
     IN IF d \in {"expire", "query"}
        THEN /\ poll' = [pc |-> d, b |-> b, local |-> rows[b]]
             /\ pollResponse' = "none"
        ELSE /\ poll' = PollIdle
             /\ pollResponse' = d
  /\ queryResult' = NotQueried
  /\ UNCHANGED <<call, postResponse, paymentEmails, cbResponse, pending, now,
                 rows, uncommitted, paymentLogs, waitingList, post, cb,
                 cancel, gwIssued, gwReported>>

\* check_payment_status, step 3: mark_expired saves the object read earlier.
PollExpire ==
  /\ poll.pc = "expire"
  /\ Save(poll.b, poll.local, mark_expired(poll.local))
  /\ pollResponse' = "expired"
  /\ poll' = PollIdle
  /\ UNCHANGED queryResult
  /\ UNCHANGED <<call, postResponse, cbResponse, pending, now, uncommitted,
                 paymentLogs, waitingList, post, cb, cancel, gwIssued,
                 gwReported>>

\* check_payment_status, step 4: the gateway is queried and its answer
\* applied to the object read earlier.
PollQuery ==
  /\ poll.pc = "query"
  /\ \E result \in QueryResults :
       LET b == poll.b
           o == PollOutcome(result)
       IN /\ queryResult' = result
          /\ gwReported' = IF result.ok /\ result.has_code /\ result.code = 0
                           THEN gwReported \cup {poll.local.transaction_id}
                           ELSE gwReported
          /\ IF o = "confirm"
             THEN /\ Save(b, poll.local,
                          confirm_payment(poll.local,
                                          poll.local.transaction_id, now))
                  /\ paymentLogs' =
                       [paymentLogs EXCEPT ![b] =
                          Append(@, Log("payment_confirmed_via_query", "0"))]
                  /\ pollResponse' = "confirmed"
             ELSE IF o = "fail"
             THEN /\ Save(b, poll.local, QueryFailed(poll.local, now))
                  /\ paymentLogs' =
                       [paymentLogs EXCEPT ![b] =
                          Append(@, Log("payment_failed_via_query",
                                        Str(result.code)))]
                  /\ pollResponse' = "failed"
             ELSE /\ UNCHANGED <<rows, paymentLogs, paymentEmails>>
                  /\ pollResponse' = "pending"
  /\ poll' = PollIdle
  /\ UNCHANGED <<call, postResponse, cbResponse, pending, now, uncommitted,
                 waitingList, post, cb, cancel, gwIssued>>

\* ------------------------------------------------------ cancel_booking_view
CancelIdle == [pc |-> "idle", b |-> 0, local |-> NoBooking]

\* CancelRequest without the test of the status.
CancelRequest_AnyStatus(u, b) ==
  /\ cancel.pc = "idle"
  /\ b \in Committed
  /\ rows[b].user = u
  /\ cancel' = [pc |-> "loaded", b |-> b, local |-> rows[b]]
  /\ UNCHANGED <<call, postResponse, paymentEmails, cbResponse, pending, now,
                 rows, uncommitted, paymentLogs, waitingList, post, cb, poll,
                 pollResponse, queryResult, gwIssued, gwReported>>

\* cancel_booking_view, first part: the owner's request reads the booking;
\* a booking that is neither Confirmed nor Pending is refused.
CancelRequest(u, b) ==
  /\ cancel.pc = "idle"
  /\ b \in Committed
  /\ rows[b].user = u
  /\ cancel' = IF rows[b].status \notin {"Confirmed", "Pending"}
               THEN CancelIdle
               ELSE [pc |-> "loaded", b |-> b, local |-> rows[b]]
  /\ UNCHANGED <<call, postResponse, paymentEmails, cbResponse, pending, now,
                 rows, uncommitted, paymentLogs, waitingList, post, cb, poll,
                 pollResponse, queryResult, gwIssued, gwReported>>

\* CancelledByUser without the refund.
CancelledByUser_NoRefund(bk, t) ==
  cancel_booking(bk, "User requested cancellation", t)

\* The booking the transaction of cancel_booking_view leaves.
CancelledByUser(bk, t) ==
  LET c == cancel_booking(bk, "User requested cancellation", t)
  IN IF c.payment_status = "Paid"
     THEN [c EXCEPT !.payment_status = "Refunded"] ELSE c

\* cancel_booking_view, second part: the transaction.
CancelCommit ==
  /\ cancel.pc = "loaded"
  /\ Save(cancel.b, cancel.local, CancelledByUser(cancel.local, now))
  /\ paymentLogs' = [paymentLogs EXCEPT ![cancel.b] =
                       Append(@, Log("booking_cancelled", "USER_CANCEL"))]
  /\ cancel' = CancelIdle
  /\ UNCHANGED <<call, postResponse, cbResponse, pending, now, uncommitted,
                 waitingList, post, cb, poll, pollResponse, queryResult,
                 gwIssued, gwReported>>

\* -------------------------------------------------------------------- time
Tick ==
  /\ now + TickMinutes <= MaxTime
  /\ now' = now + TickMinutes
  /\ UNCHANGED <<call, postResponse, paymentEmails, cbResponse, pending, rows,
                 uncommitted, paymentLogs, waitingList, post, cb, poll,
                 cancel, pollResponse, queryResult, gwIssued, gwReported>>

\* ----------------------------------------------------------- specification
Init ==
  /\ now = 0
  /\ rows = <<>>
  /\ uncommitted = {}
  /\ paymentLogs = <<>>
  /\ paymentEmails = <<>>
  /\ waitingList = {}
  /\ post = [s \in Sessions |-> PostIdle]
  /\ cb = CbIdle
  /\ poll = PollIdle
  /\ cancel = CancelIdle
  /\ pending = PendingIdle
  /\ cbResponse = NoResponse
  /\ postResponse = "none"
  /\ call = NoCallYet
  /\ pollResponse = "none"
  /\ queryResult = NotQueried
  /\ gwIssued = {}
  /\ gwReported = {}

Next ==
  \/ \E u \in Users, type \in BookingTypes, phone \in Phones :
       PostCheck(u, type, phone)
  \/ \E u \in Users : PostPay(u)
  \/ \E u \in Users : PostCommit(u)
  \/ \E rid \in BookingIds, code \in CallbackCodes : CallbackReceive(rid, code)
  \/ CallbackProcess
  \/ \E u \in Users, b \in BookingIds : PollRequest(u, b)
  \/ PollExpire
  \/ PollQuery
  \/ \E u \in Users, b \in BookingIds : CancelRequest(u, b)
  \/ CancelCommit
  \/ \E u \in Users, b \in BookingIds : PendingRequest(u, b)
  \/ PendingExpire
  \/ Tick

Spec == Init /\ [][Next]_vars

\* The webhook endpoint with every body it can be sent.  CallbackMalformed
\* changes cbResponse alone, which no handler reads.
NextWebhook ==
  \/ \E u \in Users, type \in BookingTypes, phone \in Phones :
       PostCheck(u, type, phone)
  \/ \E u \in Users : PostPay(u)
  \/ \E u \in Users : PostCommit(u)
  \/ \E rid \in BookingIds, code \in CallbackCodes : CallbackReceive(rid, code)
  \/ \E payload \in Malformed : CallbackMalformed(payload)
  \/ CallbackProcess
  \/ Tick

SpecWebhook == Init /\ [][NextWebhook]_vars

\* Booking requests at every occupancy of the class: the requests made
\* while a booking holds the spot, and the cancellations that free it.
NextAdmission ==
  \/ \E u \in Users, type \in BookingTypes, phone \in Phones :
       PostRequest(u, type, phone)
  \/ \E u \in Users : PostPay(u)
  \/ \E u \in Users : PostCommit(u)
  \/ \E u \in Users, b \in BookingIds : CancelRequest(u, b)
  \/ CancelCommit
  \/ Tick

SpecAdmission == Init /\ [][NextAdmission]_vars

\* One user's booking requests, one after the other, up to the rate limit.
NextRate ==
  \/ \E type \in BookingTypes, phone \in Phones :
       PostAny(1, type, phone, RateLimit)
  \/ PostPay(1)
  \/ PostCommit(1)
  \/ Tick

SpecRate == Init /\ [][NextRate]_vars

\* Booking requests of all sessions side by side at one moment, for one
\* booking more than the class has room for.
NextConcurrent ==
  \/ \E s \in Sessions, type \in BookingTypes, phone \in Phones :
       PostAny(s, type, phone, max_students + 1)
  \/ \E s \in Sessions : PostPay(s)
  \/ \E s \in Sessions : PostCommit(s)

SpecConcurrent == Init /\ [][NextConcurrent]_vars

\* A booking and its owner's polls, with no webhook delivered: the client
\* polls again and again while the page is open, every request that has
\* started runs to its end, and time passes.
NextPolling ==
  \/ \E u \in Users, type \in BookingTypes, phone \in Phones :
       PostCheck(u, type, phone)
  \/ \E u \in Users : PostPay(u)
  \/ \E u \in Users : PostCommit(u)
  \/ \E u \in Users, b \in BookingIds : PollRequest(u, b)
  \/ PollExpire
  \/ PollQuery
  \/ \E u \in Users, b \in BookingIds : PendingRequest(u, b)
  \/ PendingExpire
  \/ Tick

SpecPolling ==
  /\ Init
  /\ [][NextPolling]_vars
  /\ SF_vars(\E u \in Users, b \in BookingIds : PollRequest(u, b))
  /\ WF_vars(PollExpire)
  /\ WF_vars(PollQuery)
  /\ WF_vars(Tick)

\* The gateway client called with every input and every run of answers.
NextGateway ==
  \/ GetAccessTokenCall
  \/ StkPushCall
  \/ CallReturn

SpecGateway == Init /\ [][NextGateway]_vars

\* ------------------------------------------------------------------ claims
Terminal == {"Confirmed", "Cancelled", "Expired"}

\* The booking a finalization (a callback's or a query's) has left.
Finalized(bk) ==
  \/ bk.status = "Confirmed" /\ bk.payment_status = "Paid"
  \/ bk.status = "Cancelled" /\ bk.payment_status = "Failed"

AwaitingPayment(bk) ==
  bk.status = "Pending" /\ bk.payment_status = "Pending"

\* The steps that end a handler.
CallbackStep == cb.pc = "loaded" /\ cb'.pc = "idle"
QueryStep == poll.pc = "query" /\ poll'.pc = "idle"
ExpireStep == poll.pc = "expire" /\ poll'.pc = "idle"
PendingExpireStep == pending.pc = "expire" /\ pending'.pc = "idle"
PollRequestStep == poll.pc = "idle" /\ poll' # poll

SameState(b) ==
  /\ rows'[b].status = rows[b].status
  /\ rows'[b].payment_status = rows[b].payment_status

Entries(b, actions) ==
  Len(SelectSeq(paymentLogs[b], LAMBDA e : e.action \in actions))

\* C1 (race safety): when a callback and a poll that both read the booking
\* in Pending/payment-Pending finalize it concurrently, the one whose
\* transaction comes second finds the booking finalized and changes nothing.
C1_RaceSafety ==
  [][/\ (QueryStep /\ AwaitingPayment(poll.local)
           /\ Finalized(rows[poll.b])) => SameState(poll.b)
     /\ (CallbackStep /\ AwaitingPayment(cb.local)
           /\ Finalized(rows[cb.b])) => SameState(cb.b)]_vars

\* C2 (terminal states are final): a callback delivered, or a poll made,
\* when the booking is already Confirmed, Cancelled or Expired changes
\* neither its status nor its paymentStatus.
C2_TerminalFinal ==
  [][/\ (CallbackStep /\ cb.local.status \in Terminal) => SameState(cb.b)
     /\ ((QueryStep \/ ExpireStep) /\ poll.local.status \in Terminal)
          => SameState(poll.b)
     /\ PollRequestStep => rows' = rows]_vars

SuccessFinalizations(b) ==
  Len(SelectSeq(paymentLogs[b],
                LAMBDA e : \/ e.action = "payment_confirmed_via_query"
                           \/ /\ e.action = "callback_received"
                              /\ e.status_code = "0"))

\* C4 (idempotent confirmation): after two success finalizations of a
\* request id the log holds exactly one entry recording the confirmation.
C4_IdempotentConfirmation ==
  \A b \in Committed :
    SuccessFinalizations(b) >= 2 =>
      Entries(b, {"payment_confirmed", "payment_confirmed_via_query"}) = 1

\* C5 (callback redelivery): a success callback delivered for a booking that
\* a success callback has already made Confirmed/Paid leaves status,
\* paymentStatus and confirmed_at as they were.
C5_RedeliveryUnchanged ==
  [][(/\ CallbackStep
      /\ cb.code = 0
      /\ Entries(cb.b, {"payment_confirmed"}) >= 1
      /\ cb.local = rows[cb.b]
      /\ rows[cb.b].status = "Confirmed"
      /\ rows[cb.b].payment_status = "Paid")
     => /\ SameState(cb.b)
        /\ rows'[cb.b].confirmed_at = rows[cb.b].confirmed_at]_vars

\* C6 (expiry monotonicity): once expires_at has passed, a booking is
\* changed by nothing but expire, and expire changes no Expired booking.
C6_ExpiryMonotonic ==
  [][\A b \in Committed :
       (is_payment_expired(rows[b], now) /\ rows'[b] # rows[b])
         => /\ \/ ExpireStep /\ poll.b = b
               \/ PendingExpireStep /\ pending.b = b
            /\ rows[b].status # "Expired"]_vars

\* C7 (no re-query after terminal): a poll request made when the persisted
\* status is Confirmed, Cancelled or Expired never goes on to query the
\* gateway.
C7_NoQueryAfterTerminal ==
  [][/\ (PollRequestStep /\ poll'.pc = "query")
          => rows[poll'.b].status \notin Terminal
     /\ QueryStep => poll.local.status \notin Terminal]_vars

\* C7 witness: the poll of a terminal booking was answered without a query.
C7_Witness ==
  /\ poll.pc = "idle"
  /\ pollResponse = "failed"
  /\ queryResult = NotQueried
  /\ \E b \in Committed :
       rows[b].status = "Cancelled" /\ rows[b].payment_status = "Pending"

\* C8 (a failed query fails no booking): when query_transaction returns
\* nothing, the poll leaves the table as it is and answers "pending".
C8_FailedQueryKeepsPending ==
  [][(QueryStep /\ ~queryResult'.ok)
     => (rows' = rows /\ pollResponse' = "pending")]_vars

\* C8 witness: a query failed and the booking still awaits its payment.
C8_Witness ==
  /\ queryResult = QueryNone
  /\ pollResponse = "pending"
  /\ \E b \in Committed : AwaitingPayment(rows[b])

\* C9 (payment precedes confirmation): a booking that is no free trial is
\* Confirmed only if the gateway has reported result code 0 for its own
\* request id.
C9_PaymentPrecedesConfirmation ==
  \A b \in 1..Len(rows) :
    (rows[b].booking_type # "Free Trial" /\ rows[b].status = "Confirmed")
      => (rows[b].transaction_id # NoTxn
          /\ rows[b].transaction_id \in gwReported)

\* C9 witness: a paid-for booking is Confirmed.
C9_Witness ==
  \E b \in Committed :
    /\ rows[b].booking_type = "Monthly"
    /\ rows[b].status = "Confirmed"
    /\ b \in gwReported

\* A booking whose push initiation failed: it is no free trial and no push
\* was sent for it.
InitiationFailedFor(b) ==
  /\ rows[b].booking_type # "Free Trial"
  /\ Entries(b, {"stk_push_sent"}) = 0

\* C10 (no dangling booking): a booking whose push initiation failed is
\* Cancelled/Failed, from the end of the request on.
C10_FailedInitiationCancels ==
  \A b \in 1..Len(rows) :
    InitiationFailedFor(b) =>
      rows[b].status = "Cancelled" /\ rows[b].payment_status = "Failed"

\* C10 witness: the push timed out on every attempt and the booking is
\* committed as Cancelled/Failed.
C10_Witness ==
  \E b \in Committed :
    /\ rows[b].notes = << <<"Payment initiation failed", "TIMEOUT">> >>
    /\ paymentLogs[b][Len(paymentLogs[b])] = Log("stk_push_failed", "TIMEOUT")
    /\ rows[b].status = "Cancelled"
    /\ rows[b].payment_status = "Failed"

\* The audit entries of a booking's payment attempt: all but the entry of
\* its creation.
AttemptEntries(b) ==
  Len(SelectSeq(paymentLogs[b], LAMBDA e : e.action # "booking_created"))

TimedOut(b) ==
  \E i \in 1..Len(paymentLogs[b]) :
    paymentLogs[b][i] = Log("stk_push_failed", "TIMEOUT")

\* C11 (audit entries of a timed-out initiation): a booking whose push
\* initiation failed with TIMEOUT after max_retries attempts is
\* Cancelled/Failed and has exactly 4 audit entries for the attempt.
C11_TimedOutAuditEntries ==
  \A b \in 1..Len(rows) :
    TimedOut(b) =>
      /\ rows[b].status = "Cancelled"
      /\ rows[b].payment_status = "Failed"
      /\ AttemptEntries(b) = max_retries + 1

\* A step that changes the status or the payment status of booking b.
Transition(b) ==
  \/ rows'[b].status # rows[b].status
  \/ rows'[b].payment_status # rows[b].payment_status

\* C12 (one audit entry per transition): every step that takes an existing
\* booking from one state to another (confirm, fail, expire, cancel by user)
\* appends exactly one audit entry to that booking's log.
C12_OneEntryPerTransition ==
  [][\A b \in 1..Len(rows) :
       Transition(b) => Len(paymentLogs'[b]) = Len(paymentLogs[b]) + 1]_vars

\* C13 (free-trial bypass): a free-trial request that passed the admission
\* checks leaves its booking Confirmed/Paid having made no token request and
\* no push request; the gateway issues no request id for a free trial and no
\* poll queries the gateway for one.
C13_FreeTrialBypass ==
  /\ \A u \in Users :
       (post[u].pc = "paid" /\ post[u].type = "Free Trial") =>
         /\ rows[post[u].b].status = "Confirmed"
         /\ rows[post[u].b].payment_status = "Paid"
         /\ post[u].token_requests = 0
         /\ post[u].push_requests = 0
  /\ \A b \in 1..Len(rows) :
       rows[b].booking_type = "Free Trial" =>
         /\ b \notin gwIssued
         /\ rows[b].transaction_id = NoTxn
         /\ Entries(b, {"payment_initiated", "stk_push_sent",
                        "stk_push_failed"}) = 0
  /\ poll.pc = "query" => poll.local.booking_type # "Free Trial"

\* C13 witness: a free-trial request has just been paid for.
C13_Witness ==
  \E u \in Users :
    /\ post[u].pc = "paid"
    /\ post[u].type = "Free Trial"
    /\ rows[post[u].b].status = "Confirmed"
    /\ paymentLogs[post[u].b] = <<Log("booking_created", "CREATED"),
                                  Log("free_trial_confirmed", "FREE_TRIAL")>>

\* What a poll that found the deadline passed has done when it returns.
ExpiredByPoll ==
  ExpireStep =>
    /\ pollResponse' = "expired"
    /\ queryResult' = NotQueried
    /\ rows'[poll.b].status = "Expired"
    /\ rows'[poll.b].payment_status = "Failed"

\* C14 (poll after the deadline, as claimed): a poll on a booking with
\* payment_status Pending whose expires_at has passed makes no query, answers
\* "expired" and leaves the booking Expired/Failed.
C14_PollAfterDeadline_Claimed ==
  [][/\ \A u \in Users, b \in BookingIds :
          (/\ PollRequest(u, b)
           /\ rows[b].payment_status = "Pending"
           /\ is_payment_expired(rows[b], now))
          => (poll'.pc = "expire" /\ poll'.b = b)
     /\ ExpiredByPoll]_vars

\* C14 (amended): a poll on a booking with status Pending and payment_status
\* Pending whose expires_at has passed makes no query, answers "expired" and
\* leaves the booking Expired/Failed; a booking its user cancelled while the
\* payment was Pending is answered "failed" and left as it is.
C14_PollAfterDeadline ==
  [][/\ \A u \in Users, b \in BookingIds :
          (/\ PollRequest(u, b)
           /\ AwaitingPayment(rows[b])
           /\ is_payment_expired(rows[b], now))
          => (poll'.pc = "expire" /\ poll'.b = b)
     /\ \A u \in Users, b \in BookingIds :
          (/\ PollRequest(u, b)
           /\ rows[b].status = "Cancelled"
           /\ rows[b].payment_status = "Pending"
           /\ is_payment_expired(rows[b], now))
          => (poll'.pc = "idle" /\ pollResponse' = "failed")
     /\ ExpiredByPoll]_vars

\* C14 witness: a poll has expired a booking whose deadline had passed.
C14_Witness ==
  /\ poll.pc = "idle"
  /\ pollResponse = "expired"
  /\ queryResult = NotQueried
  /\ \E b \in Committed :
       /\ rows[b].status = "Expired"
       /\ rows[b].payment_status = "Failed"
       /\ is_payment_expired(rows[b], now)

\* C15 (the webhook always acknowledges): every delivery, whatever its body,
\* is answered 200.
C15_WebhookAlways200 == cbResponse \in {NoResponse, 200}

\* C16 (confirmation notifies once): the payment confirmation is mailed at
\* most once for a booking.
C16_NotifiesOnce == \A b \in 1..Len(rows) : paymentEmails[b] <= 1

CancelStep == cancel.pc = "loaded" /\ cancel'.pc = "idle"

\* C17 (user cancellation): a cancel request on a booking that is neither
\* Pending nor Confirmed is refused and changes nothing; an accepted one
\* leaves the booking Cancelled, with payment_status Refunded exactly when
\* the booking it read was Paid and as it was read otherwise.
C17_UserCancellation ==
  [][/\ \A u \in Users, b \in BookingIds :
          CancelRequest(u, b) =>
            /\ rows' = rows
            /\ cancel'.pc = "loaded" <=> rows[b].status \in {"Pending", "Confirmed"}
     /\ CancelStep =>
          /\ cancel.local.status \in {"Pending", "Confirmed"}
          /\ rows'[cancel.b].status = "Cancelled"
          /\ rows'[cancel.b].payment_status =
               IF cancel.local.payment_status = "Paid" THEN "Refunded"
               ELSE cancel.local.payment_status
          /\ \A c \in 1..Len(rows) : c # cancel.b => rows'[c] = rows[c]]_vars

\* C17 witness: a booking cancelled by its user while its payment was
\* pending.
C17_Witness ==
  /\ cancel.pc = "idle"
  /\ \E b \in Committed :
       /\ rows[b].status = "Cancelled"
       /\ rows[b].payment_status = "Pending"
       /\ rows[b].cancelled_at # NoTime
       /\ paymentLogs[b][Len(paymentLogs[b])] =
            Log("booking_cancelled", "USER_CANCEL")

\* C18 (terminal timestamps are exclusive): no booking has both confirmed_at
\* and cancelled_at set.
C18_ExclusiveTimestamps ==
  \A b \in 1..Len(rows) :
    rows[b].confirmed_at = NoTime \/ rows[b].cancelled_at = NoTime

\* A request by u that the form, the rate check and the duplicate check
\* let through.
PassesChecks(u, phone) ==
  /\ clean_phone_number(phone) # NoPhone
  /\ recent_bookings(u) < RateLimit
  /\ ~ \E b \in Committed : rows[b].user = u /\ Active(b)

\* C19 (capacity check): a request that passes the rate and duplicate
\* checks while the class is at capacity puts its user on the waiting list,
\* is answered "waitlisted" and creates no booking, whatever the booking
\* type.
C19_FullClassWaitlists ==
  [][\A u \in Users, type \in BookingTypes, phone \in Phones :
       (PostRequest(u, type, phone) /\ PassesChecks(u, phone) /\ is_full)
         => /\ u \in waitingList'
            /\ postResponse' = "waitlisted"
            /\ post'[u].pc = "idle"
            /\ rows' = rows]_vars

HasActiveBooking(u) == \E b \in Committed : rows[b].user = u /\ Active(b)

\* C20 (duplicate-active check): a booking request by a user who already
\* has a Pending or Confirmed booking is turned away: it creates no booking,
\* no audit entry, no waiting-list entry and no gateway call.
C20_DuplicateRejected ==
  [][\A u \in Users, type \in BookingTypes, phone \in Phones :
       (PostRequest(u, type, phone) /\ HasActiveBooking(u))
         => /\ postResponse' \in {"invalid", "rate_limited", "duplicate"}
            /\ post'[u].pc = "idle"
            /\ rows' = rows
            /\ paymentLogs' = paymentLogs
            /\ waitingList' = waitingList
            /\ gwIssued' = gwIssued]_vars

\* C20 witness: a user with an active booking has been answered that the
\* booking exists.
C20_Witness ==
  /\ postResponse = "duplicate"
  /\ \E u \in Users : HasActiveBooking(u) /\ post[u].pc = "idle"

\* The bookings a user has created in the five minutes up to now.
CreatedRecently(u) ==
  Cardinality({b \in Committed :
                 rows[b].user = u /\ now - rows[b].booked_at <= 5})

\* C21 (rate check): a booking request of a user who has created three or
\* more bookings in the last five minutes is turned away and creates no
\* booking; with fewer than three the rate check does not turn it away.
C21_RateCheck ==
  [][\A type \in BookingTypes, phone \in Phones :
       PostAny(1, type, phone, RateLimit) =>
         /\ CreatedRecently(1) >= 3 =>
              /\ rows' = rows
              /\ post'[1].pc = "idle"
              /\ clean_phone_number(phone) # NoPhone
                   => postResponse' = "rate_limited"
         /\ CreatedRecently(1) < 3 => postResponse' # "rate_limited"]_vars

\* C21 witness: a user with three bookings created in the last five
\* minutes, all cancelled, has been turned away by the rate check.
C21_Witness ==
  /\ postResponse = "rate_limited"
  /\ CreatedRecently(1) = 3
  /\ \A b \in 1..Len(rows) : rows[b].status = "Cancelled"
  /\ post[1].pc = "idle"

\* C22 (successful initiation): a paid booking requested with a local-format
\* phone number goes on to the payment with the number normalized to its
\* 254 form, and once the push is accepted the booking is Pending/Pending
\* with the request id the gateway returned and expires_at five minutes
\* after the initiation.
C22_LocalPhoneInitiates ==
  [][/\ \A u \in Users :
          (PostCheck(u, "Monthly", PLocal) /\ PassesChecks(u, P254) /\ ~is_full)
            => /\ post'[u].pc = "checked"
               /\ post'[u].phone = P254
     /\ \A u \in Users :
          (PostPay(u) /\ rows'[Len(rows')].payment_status = "Pending")
            => /\ rows'[Len(rows')].status = "Pending"
               /\ rows'[Len(rows')].phone_number = P254
               /\ rows'[Len(rows')].transaction_id = Len(rows')
               /\ rows'[Len(rows')].expires_at = now + 5]_vars

\* C23 (validation precedes the network): stk_push called with a phone
\* number that does not normalize, or with an amount that is not a positive
\* integer, returns INVALID_PHONE or INVALID_AMOUNT having made neither a
\* token request nor a push request.
C23_ValidationPrecedesNetwork ==
  (/\ call.fn = "stk_push"
   /\ \/ call.phone = PBad
      \/ call.amount < 100
      \/ call.amount % 100 # 0)
    => /\ ~call.result.success
       /\ call.result.error_code \in {"INVALID_PHONE", "INVALID_AMOUNT"}
       /\ call.result.token_requests = 0
       /\ call.result.push_requests = 0

\* C24 (credential errors are not retried): get_access_token called with no
\* cached token, whose first request the provider answers 401, returns no
\* token after that one request.
C24_CredentialErrorNotRetried ==
  (/\ call.fn = "get_access_token"
   /\ ~call.cached
   /\ call.outs[1] = "http401")
    => /\ ~call.result.token
       /\ call.result.requests = 1

\* C25 (bounded initiation retries): stk_push returns a result after at
\* most three push requests, and every push request but the last ended in a
\* timeout, a network error or an answer other than 200.
C25_BoundedRetries ==
  call.fn = "stk_push" =>
    /\ call.result.success \/ call.result.error_code \notin {"", "NONE"}
    /\ call.result.push_requests <= 3
    /\ \A i \in 1..(call.result.push_requests - 1) :
         call.outs[i] \in {"timeout", "neterror", "http500"}

\* C26 (poll result-code mapping): when the poll's query is answered with a
\* result code, code 0 leaves the booking Confirmed/Paid, codes 1032 and 1
\* leave every booking as it was and the poll is answered "pending", and
\* every other code leaves the booking Cancelled/Failed.
C26_PollResultCodes ==
  [][(QueryStep /\ queryResult'.ok /\ queryResult'.has_code) =>
       /\ poll.local.status = "Pending"
       /\ poll.local.payment_status = "Pending"
       /\ queryResult'.code = 0 =>
            /\ rows'[poll.b].status = "Confirmed"
            /\ rows'[poll.b].payment_status = "Paid"
            /\ pollResponse' = "confirmed"
       /\ queryResult'.code \in {1032, 1} =>
            /\ rows' = rows
            /\ pollResponse' = "pending"
       /\ queryResult'.code \notin {0, 1032, 1} =>
            /\ rows'[poll.b].status = "Cancelled"
            /\ rows'[poll.b].payment_status = "Failed"
            /\ pollResponse' = "failed"]_vars

\* C26 witness: the query reported result code 1032, the poll was answered
\* "pending" and the booking is still Pending/Pending.
C26_Witness ==
  /\ poll.pc = "idle"
  /\ queryResult.ok /\ queryResult.has_code /\ queryResult.code = 1032
  /\ pollResponse = "pending"
  /\ \E b \in Committed :
       rows[b].status = "Pending" /\ rows[b].payment_status = "Pending"

\* C27 (no issued request id is orphaned): a webhook delivered for a request
\* id that a successful push initiation returned finds the booking holding
\* it, and goes on to be applied to it, also before the transaction that
\* created the booking has committed.
C27_NoOrphanedRequestId ==
  [][\A rid \in BookingIds, code \in CallbackCodes :
       (/\ CallbackReceive(rid, code)
        /\ rid <= Len(rows)
        /\ rows[rid].transaction_id = rid)
         => /\ cb'.pc = "loaded"
            /\ cb'.b = rid
            /\ cb'.code = code]_vars

\* C28 (capacity is never exceeded): the class never has more Pending or
\* Confirmed bookings than max_students.
C28_CapacityNeverExceeded ==
  Cardinality({b \in Committed : Active(b)}) <= max_students

\* C29 (at most one active booking per slot): no user has two Pending or
\* Confirmed bookings of the class and schedule.
C29_OneActiveBookingPerUser ==
  \A u \in Users :
    Cardinality({b \in Committed : rows[b].user = u /\ Active(b)}) <= 1

\* The last value the clock takes.
LastTime == (MaxTime \div TickMinutes) * TickMinutes

\* C30 (every pending payment is eventually resolved): while its owner keeps
\* polling and time passes, a committed booking that is Pending/Pending,
\* with a deadline the clock goes beyond, becomes Confirmed, Cancelled or
\* Expired, whatever the queries answer and with no webhook delivered.
C30_PendingResolved ==
  \A b \in BookingIds :
    (/\ b \in Committed
     /\ AwaitingPayment(rows[b])
     /\ rows[b].expires_at < LastTime)
      ~> (b \in Committed /\ rows[b].status \in Terminal)

\* C30 witness: a booking no webhook and no query has touched, expired by
\* its owner's poll after the deadline.
C30_Witness ==
  \E b \in Committed :
    /\ rows[b].status = "Expired"
    /\ now > rows[b].expires_at
    /\ pollResponse = "expired"
    /\ paymentLogs[b] = <<Log("booking_created", "CREATED"),
                          Log("payment_initiated", "INITIATED"),
                          Log("stk_push_sent", "SUCCESS")>>

====
